---- MODULE Spec2Model ----
(***************************************************************************)
(* The replica-merge engine of sellventory-companion (src/merge_zip.py)    *)
(* together with the one-store helpers of src/database.py that share the   *)
(* local connection with it, and the two export entry points               *)
(* (src/export_zip.py, SellventoryApp.on_export_zip of src/ui.py).         *)
(*                                                                         *)
(* A store is a partial function from record ids to records.  A record is  *)
(* a TLA+ record with the logical fields of _rows_map.  Absent (SQL NULL / *)
(* Python None) text values are the sentinel NULL; absent timestamps are   *)
(* 0, because every test the code makes on updated_at and deleted_at       *)
(* (truthiness, "or 0") treats None and 0 alike; an absent image name is   *)
(* the empty tuple, a present one is <<stem, extension>>.                  *)
(***************************************************************************)
EXTENDS Integers, Sequences, FiniteSets, TLC

\* ------------------------------------------------------------------ bounds
NumIds == 2
MaxTime == 2
MaxCalls == 2

Ids == 1..NumIds

\* ------------------------------------------------------------- value sets
NULL == "NULL"
Keys == {"sold_date", "sold_price", "name", "location", "buy_price"}
NoName == << >>
Bytes == {"c1", "c2"}
ArchiveKinds == {"zip", "db", "badzip", "nodb"}
NotInCall == {"idle", "done", "failed"}

VARIABLES
  committed,      \* durable rows of the local store file
  rows,           \* rows as the local connection sees them (committed + pending)
  total_changes,  \* sqlite3 Connection.total_changes of the local connection
  images,         \* local image directory: stored name -> bytes
  inc_rows,       \* rows of the incoming store
  inc_order,      \* row order of the incoming store (dict iteration order)
  inc_files,      \* image files shipped with the incoming store: name -> bytes
  loc_cols,       \* physical columns of the local store's table
  inc_cols,       \* physical columns of the incoming store's table
  snap_changes,   \* total_changes when the running / last pass read the local rows
  archive,        \* what the running / last merge call was given
  pc,             \* "idle" | "loop" | "done" | "failed"
  err,            \* the exception the last call raised, or "none"
  local,          \* snapshot of the local rows read at the start of the pass
  i,              \* position of the record loop in inc_order
  stats,          \* counters of the running / last pass
  tempdir,        \* the tempdir variable of the running / last merge call is set
  tmp_dirs,       \* number of sv_merge_ directories that exist on disk
  now,            \* clock of the pass, _now_ms()
  calls,          \* number of merge_zip_into_local and update_item calls made
  prev,           \* local store and statistics at the end of the preceding
                  \* successful pass, when nothing touched the store since
  aborted,        \* the connection holds pending writes of an aborted pass
  exported        \* the archive written by the last call, if it was an export

vars == <<committed, rows, total_changes, images, inc_rows, inc_order, loc_cols, inc_cols, snap_changes, inc_files,
          archive, pc, err, local, i, stats, tempdir, tmp_dirs, now, calls, prev,
          aborted, exported>>

\* ---------------------------------------------------------------- helpers
Put(f, k, v) == [x \in (DOMAIN f) \cup {k} |-> IF x = k THEN v ELSE f[x]]

EmptyFn == [x \in {} |-> NULL]

Rec(flds, img, h, u, d) ==
  [sold_date |-> flds["sold_date"], sold_price |-> flds["sold_price"],
   name |-> flds["name"], location |-> flds["location"],
   buy_price |-> flds["buy_price"],
   image_name |-> img, image_hash |-> h, updated_at |-> u, deleted_at |-> d]

AllNull == [k \in Keys |-> NULL]

ZeroStats == [inserted |-> 0, updated |-> 0, deleted |-> 0,
              images_copied |-> 0, skipped |-> 0]

NoPrev == [valid |-> FALSE, rows |-> EmptyFn, images |-> EmptyFn]

NoExport == [by |-> "none", db |-> EmptyFn, images |-> {}]

\* ------------------------------------------------- merge_zip.py, helpers
\* _sha1: the digest of a file's bytes (distinct bytes, distinct digests).
Sha1(b) == CASE b = "c1" -> "h1" [] b = "c2" -> "h2" [] OTHER -> "h3"

\* os.path.splitext(name)[1] of a name <<stem, extension>>.
SplitExt(nm) == IF nm = NoName THEN "" ELSE nm[2]

\* _rows_map: the rows of a store as a dict id -> row with the logical fields.
RowsMap(store) == [id \in DOMAIN store |-> store[id]]

\* _resolve_incoming_image_path: the path of the record's declared image, or
\* NoName when no such file exists.  The stores carry no legacy image column.
ResolveIncomingImagePath(rin, files) ==
  IF rin.image_name # NoName /\ rin.image_name \in DOMAIN files
  THEN rin.image_name ELSE NoName

\* Faulty variant of CopyImageIntoLocal: the bytes are copied even when a file
\* of that name exists.
CopyImageIntoLocal_Overwrite(imgs, src, bytes, prefer_name) ==
  LET h == Sha1(bytes)
      e0 == SplitExt(IF prefer_name # NoName THEN prefer_name ELSE src)
      ext == IF e0 = "" THEN ".jpg" ELSE e0
      out_name == <<h, ext>>
  IN [images |-> Put(imgs, out_name, bytes), name |-> out_name, h |-> h]

\* _copy_image_into_local: stored name = digest + extension; the bytes are
\* copied unless a file of that name exists.
CopyImageIntoLocal(imgs, src, bytes, prefer_name) ==
  LET h == Sha1(bytes)
      e0 == SplitExt(IF prefer_name # NoName THEN prefer_name ELSE src)
      ext == IF e0 = "" THEN ".jpg" ELSE e0
      out_name == <<h, ext>>
  IN [images |-> IF out_name \in DOMAIN imgs THEN imgs ELSE Put(imgs, out_name, bytes),
      name |-> out_name, h |-> h]

\* Database.cols: the logical fields that have a physical column.  The
\* stores are schema-normalized: every logical field has one.
Cols == Keys \cup {"id", "image_name", "image_hash", "updated_at", "deleted_at"}

\* The older schemas: one of these columns is not in the table.
OldCols == {"image_hash", "deleted_at", "updated_at", "image_name"}
Schemas == {Cols} \cup {Cols \ {c} : c \in OldCols}

\* _rows_map, the select list: image_name, image_hash, updated_at and
\* deleted_at are selected whatever cols says ("x" if cols.get("x") or "x").
AlwaysSelected == {"image_name", "image_hash", "updated_at", "deleted_at"}

\* _rows_map on a table with these columns raises sqlite3.OperationalError
\* (no such column).
RowsMapRaises(cols) == ~(AlwaysSelected \subseteq cols)

\* incoming = _rows_map(inc_conn, ...); local = _rows_map(loc_conn, ...):
\* "ok" or the exception raised.
ReadStores(ic, lc) ==
  IF RowsMapRaises(ic) \/ RowsMapRaises(lc) THEN "OperationalError" ELSE "ok"

\* _upsert_local: if the id column is mapped, UPDATE ... WHERE id=? and return
\* if conn.total_changes is non-zero; otherwise INSERT OR IGNORE.
UpsertLocal(rws, tc, rid, rec) ==
  LET hit == "id" \in Cols /\ rid \in DOMAIN rws
      tc1 == IF hit THEN tc + 1 ELSE tc
      rws1 == IF hit THEN Put(rws, rid, rec) ELSE rws
  IN IF "id" \in Cols /\ tc1 # 0
     THEN [rows |-> rws1, total_changes |-> tc1]
     ELSE [rows |-> Put(rws1, rid, rec), total_changes |-> tc1 + 1]

\* Faulty variant of SoftDelete: the row is removed (DELETE FROM ... WHERE id=?).
SoftDelete_Remove(rws, tc, rid, when_ms) ==
  IF rid \in DOMAIN rws
  THEN [rows |-> [x \in (DOMAIN rws) \ {rid} |-> rws[x]], total_changes |-> tc + 1]
  ELSE [rows |-> rws, total_changes |-> tc]

\* Faulty variant of SoftDelete: the WHERE clause is missing.
SoftDelete_All(rws, tc, rid, when_ms) ==
  [rows |-> [x \in DOMAIN rws |-> [rws[x] EXCEPT !.deleted_at = when_ms,
                                                  !.updated_at = when_ms]],
   total_changes |-> tc + Cardinality(DOMAIN rws)]

\* Faulty variant of SoftDelete: updated_at is not set.
SoftDelete_KeepStamp(rws, tc, rid, when_ms) ==
  IF rid \in DOMAIN rws
  THEN [rows |-> Put(rws, rid, [rws[rid] EXCEPT !.deleted_at = when_ms]),
        total_changes |-> tc + 1]
  ELSE [rows |-> rws, total_changes |-> tc]

\* _soft_delete: UPDATE ... SET deleted_at=?, updated_at=? WHERE id=?.
SoftDelete(rws, tc, rid, when_ms) ==
  IF rid \in DOMAIN rws
  THEN [rows |-> Put(rws, rid, [rws[rid] EXCEPT !.deleted_at = when_ms,
                                                 !.updated_at = when_ms]),
        total_changes |-> tc + 1]
  ELSE [rows |-> rws, total_changes |-> tc]

Bump(st, k) == [st EXCEPT ![k] = @ + 1]

\* ------------------------------------ merge_zip_into_local, record loop
\* S is [rows, total_changes, images, stats]; loc is the snapshot of the
\* local rows; rin the incoming row; files the incoming image files.

\* Faulty variant of TombstoneBranch: a tombstone of an unknown id is
\* materialized.
TombstoneBranch_Materialize(S, rid, rin, loc) ==
  IF rid \in DOMAIN loc
  THEN IF loc[rid].updated_at = 0 \/ rin.deleted_at >= loc[rid].updated_at
       THEN LET w == SoftDelete(S.rows, S.total_changes, rid, rin.deleted_at)
            IN [S EXCEPT !.rows = w.rows, !.total_changes = w.total_changes,
                         !.stats = Bump(S.stats, "deleted")]
       ELSE [S EXCEPT !.stats = Bump(S.stats, "skipped")]
  ELSE [S EXCEPT !.rows = Put(S.rows, rid, rin),
                 !.total_changes = S.total_changes + 1,
                 !.stats = Bump(S.stats, "deleted")]

\* Faulty variant of TombstoneBranch: the tombstone is applied whatever the
\* local updated_at.
TombstoneBranch_Always(S, rid, rin, loc) ==
  IF rid \in DOMAIN loc
  THEN LET w == SoftDelete(S.rows, S.total_changes, rid, rin.deleted_at)
       IN [S EXCEPT !.rows = w.rows, !.total_changes = w.total_changes,
                    !.stats = Bump(S.stats, "deleted")]
  ELSE [S EXCEPT !.stats = Bump(S.stats, "skipped")]

\* Incoming tombstone (rin.deleted_at set).
TombstoneBranch(S, rid, rin, loc) ==
  IF rid \in DOMAIN loc
  THEN IF loc[rid].updated_at = 0 \/ rin.deleted_at >= loc[rid].updated_at
       THEN LET w == SoftDelete(S.rows, S.total_changes, rid, rin.deleted_at)
            IN [S EXCEPT !.rows = w.rows, !.total_changes = w.total_changes,
                         !.stats = Bump(S.stats, "deleted")]
       ELSE [S EXCEPT !.stats = Bump(S.stats, "skipped")]
  ELSE [S EXCEPT !.stats = Bump(S.stats, "skipped")]

\* Faulty variant of InsertBranch: the insert is not counted.
InsertBranch_Uncounted(S, rid, rin, files, t) ==
  LET src == ResolveIncomingImagePath(rin, files)
      cp == CopyImageIntoLocal(S.images, src, files[src], rin.image_name)
      r1 == IF src # NoName
            THEN [rin EXCEPT !.image_name = cp.name, !.image_hash = cp.h]
            ELSE rin
      r2 == IF r1.updated_at = 0 THEN [r1 EXCEPT !.updated_at = t] ELSE r1
      w == UpsertLocal(S.rows, S.total_changes, rid, r2)
  IN [rows |-> w.rows, total_changes |-> w.total_changes,
      images |-> IF src # NoName THEN cp.images ELSE S.images,
      stats |-> IF src # NoName THEN Bump(S.stats, "images_copied") ELSE S.stats]

\* No local row of that id.
InsertBranch(S, rid, rin, files, t) ==
  LET src == ResolveIncomingImagePath(rin, files)
      cp == CopyImageIntoLocal(S.images, src, files[src], rin.image_name)
      r1 == IF src # NoName
            THEN [rin EXCEPT !.image_name = cp.name, !.image_hash = cp.h]
            ELSE rin
      r2 == IF r1.updated_at = 0 THEN [r1 EXCEPT !.updated_at = t] ELSE r1
      w == UpsertLocal(S.rows, S.total_changes, rid, r2)
  IN [rows |-> w.rows, total_changes |-> w.total_changes,
      images |-> IF src # NoName THEN cp.images ELSE S.images,
      stats |-> Bump(IF src # NoName THEN Bump(S.stats, "images_copied") ELSE S.stats,
                     "inserted")]

\* in_hash = rin.image_hash or _sha1(src_img)
InHash(rin, src, files) == IF rin.image_hash # NULL THEN rin.image_hash ELSE Sha1(files[src])

\* Faulty variant of NewerBranch: an incoming null does not replace a local
\* value.
NewerBranch_KeepLocal(S, rid, rin, rloc, files) ==
  LET src == ResolveIncomingImagePath(rin, files)
      copy == src # NoName /\ InHash(rin, src, files) # rloc.image_hash
      cp == CopyImageIntoLocal(S.images, src, files[src], rin.image_name)
      r0 == [k \in DOMAIN rin |->
               IF k \in Keys /\ rin[k] = NULL THEN rloc[k] ELSE rin[k]]
      r1 == IF copy
            THEN [r0 EXCEPT !.image_name = cp.name, !.image_hash = cp.h]
            ELSE r0
      w == UpsertLocal(S.rows, S.total_changes, rid, r1)
  IN [rows |-> w.rows, total_changes |-> w.total_changes,
      images |-> IF copy THEN cp.images ELSE S.images,
      stats |-> Bump(IF copy THEN Bump(S.stats, "images_copied") ELSE S.stats,
                     "updated")]

\* Both exist, incoming updated_at strictly greater.
NewerBranch(S, rid, rin, rloc, files) ==
  LET src == ResolveIncomingImagePath(rin, files)
      copy == src # NoName /\ InHash(rin, src, files) # rloc.image_hash
      cp == CopyImageIntoLocal(S.images, src, files[src], rin.image_name)
      r1 == IF copy
            THEN [rin EXCEPT !.image_name = cp.name, !.image_hash = cp.h]
            ELSE rin
      w == UpsertLocal(S.rows, S.total_changes, rid, r1)
  IN [rows |-> w.rows, total_changes |-> w.total_changes,
      images |-> IF copy THEN cp.images ELSE S.images,
      stats |-> Bump(IF copy THEN Bump(S.stats, "images_copied") ELSE S.stats,
                     "updated")]

\* Faulty variant of Adopts: a local value is never replaced.
Adopts_FillOnly(v_in, v_lc) == v_in # NULL /\ (v_lc = NULL \/ v_lc = "")

\* Faulty variant of Adopts: the test "v_in is not None" is dropped.
Adopts_Overwrite(v_in, v_lc) == v_lc = NULL \/ v_lc = "" \/ v_in # v_lc

\* v_in is not None and (v_lc is None or str(v_lc) == "" or v_in != v_lc)
Adopts(v_in, v_lc) == v_in # NULL /\ (v_lc = NULL \/ v_lc = "" \/ v_in # v_lc)

\* Both exist, equal updated_at: field-level merge.
EqualBranch(S, rid, rin, rloc, files, t) ==
  LET m1 == [k \in DOMAIN rloc |->
               IF k \in Keys /\ Adopts(rin[k], rloc[k]) THEN rin[k] ELSE rloc[k]]
      fchanged == \E k \in Keys : Adopts(rin[k], rloc[k])
      src == ResolveIncomingImagePath(rin, files)
      copy == src # NoName /\ InHash(rin, src, files) # rloc.image_hash
      cp == CopyImageIntoLocal(S.images, src, files[src], rin.image_name)
      m2 == IF copy
            THEN [m1 EXCEPT !.image_name = cp.name, !.image_hash = cp.h]
            ELSE m1
      changed == fchanged \/ copy
      w == UpsertLocal(S.rows, S.total_changes, rid, [m2 EXCEPT !.updated_at = t])
      st1 == IF copy THEN Bump(S.stats, "images_copied") ELSE S.stats
  IN IF changed
     THEN [rows |-> w.rows, total_changes |-> w.total_changes,
           images |-> IF copy THEN cp.images ELSE S.images,
           stats |-> Bump(st1, "updated")]
     ELSE [S EXCEPT !.stats = Bump(S.stats, "skipped")]

\* Faulty variant of MergeOne: an older incoming copy overwrites too.
MergeOne_OlderWins(S, rid, rin, loc, files, t) ==
  IF rin.deleted_at # 0 THEN TombstoneBranch(S, rid, rin, loc)
  ELSE IF rid \notin DOMAIN loc THEN InsertBranch(S, rid, rin, files, t)
  ELSE IF rin.updated_at = loc[rid].updated_at
       THEN EqualBranch(S, rid, rin, loc[rid], files, t)
  ELSE NewerBranch(S, rid, rin, loc[rid], files)

\* One iteration of "for rid, rin in incoming.items()".
MergeOne(S, rid, rin, loc, files, t) ==
  IF rin.deleted_at # 0 THEN TombstoneBranch(S, rid, rin, loc)
  ELSE IF rid \notin DOMAIN loc THEN InsertBranch(S, rid, rin, files, t)
  ELSE IF rin.updated_at > loc[rid].updated_at
       THEN NewerBranch(S, rid, rin, loc[rid], files)
  ELSE IF rin.updated_at = loc[rid].updated_at
       THEN EqualBranch(S, rid, rin, loc[rid], files, t)
  ELSE [S EXCEPT !.stats = Bump(S.stats, "skipped")]

\* The record loop from position k on: "for rid, rin in incoming.items()".
RECURSIVE MergePass(_, _, _, _, _, _, _)
MergePass(S, ord, k, inc, loc, files, t) ==
  IF k > Len(ord) THEN S
  ELSE MergePass(MergeOne(S, ord[k], inc[ord[k]], loc, files, t),
                 ord, k + 1, inc, loc, files, t)

\* The iteration executes a statement on the local connection or copies a
\* file (every outcome but a skip does): the calls of the loop that can raise.
Fallible(S, rid, rin, loc, files, t) ==
  MergeOne(S, rid, rin, loc, files, t).stats.skipped = S.stats.skipped

\* zip_or_db_path.lower().endswith(".zip")
IsZip(kind) == kind \in {"zip", "badzip", "nodb"}

\* zipfile.ZipFile(...).extractall: raises on an unreadable archive.
Extract(kind) == IF kind = "badzip" THEN "BadZipFile" ELSE "ok"

\* Faulty variant of OpenIncomingDb: a missing store file is not reported.
OpenIncomingDb_Silent(kind) == "ok"

\* _open_incoming_db: raises DBError when the archive holds no store file.
OpenIncomingDb(kind) == IF kind = "nodb" THEN "DBError" ELSE "ok"

\* The staging part of merge_zip_into_local: "ok" or the exception raised.
Staging(kind) ==
  IF IsZip(kind) /\ Extract(kind) # "ok" THEN Extract(kind)
  ELSE IF IsZip(kind) THEN OpenIncomingDb(kind)
  ELSE "ok"

\* merge_zip_into_local before the record loop: staging, then the two reads.
Opening(kind, ic, lc) ==
  IF Staging(kind) # "ok" THEN Staging(kind) ELSE ReadStores(ic, lc)

\* Faulty variant of Finally: the temporary directory is not removed.
Finally_Leak(td, n) == n

\* finally: if tempdir: shutil.rmtree(tempdir, ignore_errors=True)
Finally(td, n) == IF td THEN n - 1 ELSE n

\* ----------------------------------------------- export_zip.py and ui.py
\* _gather_referenced_images: the image_name values of the rows the
\* connection sees that name an existing file of the image directory.
GatherReferencedImages(rws, imgs) ==
  {rws[id].image_name : id \in DOMAIN rws} \cap (DOMAIN imgs)

\* export_zip_from_local: a copy of the store file and the gathered images.
ExportZipFromLocal(file_rows, rws, imgs) ==
  [by |-> "export_zip_from_local", db |-> file_rows,
   images |-> GatherReferencedImages(rws, imgs)]

\* SellventoryApp.on_export_zip: the store file and every file found by
\* os.walk(LIB_DIR/images).
OnExportZip(file_rows, imgs) ==
  [by |-> "on_export_zip", db |-> file_rows, images |-> DOMAIN imgs]

\* ------------------------------------------------------- initial stores
Perms(S) == {q \in [1..Cardinality(S) -> S] : \A a, b \in DOMAIN q : q[a] = q[b] => a = b}

One(k, v) == [AllNull EXCEPT ![k] = v]

Plain(u, d) == Rec(AllNull, NoName, NULL, u, d)

\* Stores over all ids with plain records: presence, liveness and age vary.
LocalPlain == {Plain(1, 0)}
IncomingPlain == {Plain(MaxTime, 0), Plain(0, MaxTime)}
StoresOver(recs) == UNION {[D -> recs] : D \in SUBSET Ids}

InitMulti ==
  /\ rows \in StoresOver(LocalPlain)
  /\ inc_rows \in StoresOver(IncomingPlain)
  /\ inc_files = EmptyFn
  /\ images = EmptyFn

\* One record on both sides: every combination of timestamps.
InitTimes ==
  /\ rows \in {EmptyFn} \cup
       {[x \in {1} |-> Rec(f, NoName, NULL, u, d)] :
          f \in {AllNull, One("name", "x")}, u \in 0..MaxTime, d \in 0..MaxTime}
  /\ inc_rows \in
       {[x \in {1} |-> Rec(f, NoName, NULL, u, d)] :
          f \in {AllNull, One("name", "y")}, u \in 0..MaxTime, d \in 0..MaxTime}
  /\ inc_files = EmptyFn
  /\ images = EmptyFn

\* One record on both sides: the mergeable fields vary.
LocalFields == {AllNull} \cup {One(k, v) : k \in Keys, v \in {"", "x"}}
IncomingFields == {AllNull} \cup {One(k, v) : k \in Keys, v \in {"", "x", "y"}}

InitFields ==
  /\ rows \in {EmptyFn} \cup
       {[x \in {1} |-> Rec(f, NoName, NULL, 1, 0)] : f \in LocalFields}
  /\ inc_rows \in
       {[x \in {1} |-> Rec(f, NoName, NULL, u, d)] :
          f \in IncomingFields, u \in {1, MaxTime}, d \in {0, 1}}
  /\ inc_files = EmptyFn
  /\ images = EmptyFn

\* Records with images: two incoming names, with equal or different bytes; the
\* local record, when there is one, holds an image stored by an earlier merge,
\* or none while the directory holds the partial file ("c0") of an earlier
\* copy that was interrupted.
ImgP == <<"p", ".jpg">>
ImgQ == <<"q", ".png">>
ImgIds == {x \in Ids : x <= 2}
StoredH1 == <<"h1", ".jpg">>

FileSets ==
  {[n \in D |-> IF n = ImgP THEN "c1" ELSE b] : D \in SUBSET {ImgP, ImgQ}, b \in Bytes}

InitImages ==
  /\ \E l \in {"absent", "plain", "image", "partial"} :
        /\ rows = IF l = "absent" THEN EmptyFn
                  ELSE [x \in {1} |->
                          IF l \in {"plain", "partial"} THEN Plain(1, 0)
                          ELSE Rec(AllNull, StoredH1, "h1", 1, 0)]
        /\ images = IF l = "image" THEN [n \in {StoredH1} |-> "c1"]
                    ELSE IF l = "partial" THEN [n \in {StoredH1} |-> "c0"]
                    ELSE EmptyFn
  /\ \E n1 \in {NoName, ImgP, ImgQ}, h1 \in {NULL, "h1"}, u1 \in {1, MaxTime},
        D \in SUBSET (ImgIds \ {1}), n2 \in {NoName, ImgP, ImgQ} :
        inc_rows = [x \in {1} \cup D |->
                      IF x = 1 THEN Rec(AllNull, n1, h1, u1, 0)
                      ELSE Rec(AllNull, n2, NULL, 1, 0)]
  /\ inc_files \in FileSets

\* One record on both sides, in stores of older schemas: the columns an
\* older schema can lack hold no value.
InitSchema ==
  /\ rows = [x \in {1} |-> Rec(One("name", "x"), NoName, NULL, 0, 0)]
  /\ inc_rows = [x \in {1} |-> Rec(One("name", "y"), NoName, NULL, 0, 0)]
  /\ inc_files = EmptyFn
  /\ images = EmptyFn
  /\ loc_cols \in Schemas
  /\ inc_cols \in Schemas
  /\ loc_cols # Cols \/ inc_cols # Cols

\* One record on both sides with equal timestamps: the incoming copy brings
\* the sale of an item the local copy only knows the purchase of.
Bought == [AllNull EXCEPT !["buy_price"] = "500"]
Sold == [Bought EXCEPT !["sold_price"] = "900", !["sold_date"] = "2024-05-01"]

InitSale ==
  /\ rows = [x \in {1} |-> Rec(Bought, NoName, NULL, 1, 0)]
  /\ inc_rows = [x \in {1} |-> Rec(Sold, NoName, NULL, 1, 0)]
  /\ inc_files = EmptyFn
  /\ images = EmptyFn

\* One record on both sides, stamped by a replica whose clock is ahead of
\* every reading of _now_ms() the merging machine will make.
Future == MaxTime + MaxCalls + 1

InitSkew ==
  /\ rows = [x \in {1} |-> Rec(One("name", "x"), NoName, NULL, Future, 0)]
  /\ inc_rows \in
       {[x \in {1} |-> Rec(f, NoName, NULL, Future, d)] :
          f \in {One("name", "x"), One("name", "y")}, d \in {0, Future}}
  /\ inc_files = EmptyFn
  /\ images = EmptyFn

Init ==
  /\ \/ (InitMulti \/ InitTimes \/ InitFields \/ InitImages \/ InitSkew \/ InitSale)
        /\ loc_cols = Cols /\ inc_cols = Cols
     \/ InitSchema
  /\ committed = rows
  /\ inc_order \in Perms(DOMAIN inc_rows)
  /\ total_changes = 0
  /\ snap_changes = 0
  /\ archive = "none"
  /\ pc = "idle"
  /\ err = "none"
  /\ local = EmptyFn
  /\ i = 1
  /\ stats = ZeroStats
  /\ tempdir = FALSE
  /\ tmp_dirs = 0
  /\ now = MaxTime
  /\ calls = 0
  /\ prev = NoPrev
  /\ aborted = FALSE
  /\ exported = NoExport

\* ---------------------------------------------------------------- actions
\* merge_zip_into_local up to the record loop: staging, opening the incoming
\* store, reading both stores.  A staging failure leaves through finally.
StartMerge(kind) ==
  /\ pc \in NotInCall
  /\ calls < MaxCalls
  /\ calls' = calls + 1
  /\ archive' = kind
  /\ now' = now + 1
  /\ stats' = ZeroStats
  /\ i' = 1
  /\ prev' = IF pc = "done" THEN [valid |-> TRUE, rows |-> rows, images |-> images]
             ELSE NoPrev
  /\ tempdir' = IsZip(kind)
  /\ IF Opening(kind, inc_cols, loc_cols) # "ok"
     THEN /\ pc' = "failed"
          /\ err' = Opening(kind, inc_cols, loc_cols)
          /\ tmp_dirs' = Finally(tempdir', IF tempdir' THEN tmp_dirs + 1 ELSE tmp_dirs)
          /\ UNCHANGED local
     ELSE /\ pc' = "loop"
          /\ err' = "none"
          /\ tmp_dirs' = IF tempdir' THEN tmp_dirs + 1 ELSE tmp_dirs
          /\ local' = RowsMap(rows)
  /\ snap_changes' = total_changes
  /\ UNCHANGED <<committed, rows, total_changes, images, inc_rows, inc_order, loc_cols,
                 inc_cols, inc_files, aborted>>
  /\ exported' = NoExport

\* One iteration of the record loop.
MergeRecord ==
  /\ pc = "loop"
  /\ i <= Len(inc_order)
  /\ LET rid == inc_order[i]
         S == MergeOne([rows |-> rows, total_changes |-> total_changes,
                        images |-> images, stats |-> stats],
                       rid, RowsMap(inc_rows)[rid], local, inc_files, now)
     IN /\ rows' = S.rows
        /\ total_changes' = S.total_changes
        /\ images' = S.images
        /\ stats' = S.stats
  /\ i' = i + 1
  /\ UNCHANGED <<committed, inc_rows, inc_order, loc_cols, inc_cols, snap_changes, inc_files, archive, pc, err, local,
                 tempdir, tmp_dirs, now, calls, prev, aborted, exported>>

\* loc_conn.commit(); return stats; finally.
Commit ==
  /\ pc = "loop"
  /\ i > Len(inc_order)
  /\ committed' = rows
  /\ pc' = "done"
  /\ tmp_dirs' = Finally(tempdir, tmp_dirs)
  /\ aborted' = FALSE
  /\ UNCHANGED <<rows, total_changes, images, inc_rows, inc_order, loc_cols, inc_cols, snap_changes, inc_files,
                 archive, err, local, i, stats, tempdir, now, calls, prev, exported>>

\* An exception raised while a record is processed (an I/O error of the image
\* copy, an sqlite error): it propagates through finally; nothing is rolled
\* back and nothing is committed.
RecordError ==
  /\ pc = "loop"
  /\ i <= Len(inc_order)
  /\ Fallible([rows |-> rows, total_changes |-> total_changes,
               images |-> images, stats |-> stats],
              inc_order[i], RowsMap(inc_rows)[inc_order[i]], local, inc_files, now)
  /\ pc' = "failed"
  /\ err' = "RecordError"
  /\ tmp_dirs' = Finally(tempdir, tmp_dirs)
  /\ aborted' = (aborted \/ rows # committed)
  /\ UNCHANGED <<committed, rows, total_changes, images, inc_rows, inc_order, loc_cols, inc_cols, snap_changes,
                 inc_files, archive, local, i, stats, tempdir, now, calls, prev,
                 exported>>

\* Database.update_item: UPDATE items SET ... WHERE local_id = ?; commit.
UpdateItem(id, v) ==
  /\ pc \in NotInCall
  /\ calls < MaxCalls
  /\ id \in DOMAIN rows
  /\ rows' = Put(rows, id, [rows[id] EXCEPT !.name = v])
  /\ committed' = rows'
  /\ total_changes' = total_changes + 1
  /\ calls' = calls + 1
  /\ pc' = "idle"
  /\ aborted' = FALSE
  /\ exported' = NoExport
  /\ UNCHANGED <<images, inc_rows, inc_order, loc_cols, inc_cols, snap_changes, inc_files, archive,
                 err, local, i, stats, tempdir, tmp_dirs, now, prev>>

\* Database.__init__ on the same file: a new connection; what the old one had
\* not committed is gone.
Reopen ==
  /\ pc \in NotInCall
  /\ total_changes # 0 \/ rows # committed
  /\ rows' = committed
  /\ total_changes' = 0
  /\ aborted' = FALSE
  /\ UNCHANGED <<committed, images, inc_rows, inc_order, loc_cols, inc_cols, snap_changes, inc_files, archive, pc, err,
                 local, i, stats, tempdir, tmp_dirs, now, calls, prev, exported>>

\* merge_zip_into_local run to its commit by another process, on a connection
\* of its own to the same store file, while this process is between its read
\* of the local rows and its commit.  Nothing in the code excludes it; sqlite
\* lets the other connection write as long as this one has no open write
\* transaction (no pending writes).
OtherMerge ==
  /\ pc = "loop"
  /\ rows = committed
  /\ calls < MaxCalls
  /\ LET S == MergePass([rows |-> committed, total_changes |-> 0,
                         images |-> images, stats |-> ZeroStats],
                        inc_order, 1, RowsMap(inc_rows), RowsMap(committed),
                        inc_files, now)
     IN /\ committed' = S.rows
        /\ rows' = S.rows
        /\ images' = S.images
  /\ calls' = calls + 1
  /\ UNCHANGED <<total_changes, inc_rows, inc_order, loc_cols, inc_cols, snap_changes, inc_files,
                 archive, pc, err, local, i, stats, tempdir, tmp_dirs, now, prev,
                 aborted, exported>>

\* An export call, through the library entry point or the UI action.
Export(ui) ==
  /\ pc \in NotInCall
  /\ calls < MaxCalls
  /\ calls' = calls + 1
  /\ exported' = IF ui THEN OnExportZip(committed, images)
                 ELSE ExportZipFromLocal(committed, rows, images)
  /\ UNCHANGED <<committed, rows, total_changes, images, inc_rows, inc_order,
                 loc_cols, inc_cols, snap_changes, inc_files, archive, pc, err, local, i, stats,
                 tempdir, tmp_dirs, now, prev, aborted>>

Next ==
  \/ \E kind \in ArchiveKinds : StartMerge(kind)
  \/ MergeRecord
  \/ Commit
  \/ RecordError
  \/ \E id \in Ids : UpdateItem(id, "x")
  \/ Reopen
  \/ OtherMerge
  \/ \E ui \in BOOLEAN : Export(ui)

Spec == Init /\ [][Next]_vars

\* ================================================================ claims

\* C1: merging an incoming store again, right after a successful merge of
\* it, leaves every local record and the local image directory as the first
\* merge left them.
C1_IdempotentState ==
  (pc = "done" /\ prev.valid) => (rows = prev.rows /\ images = prev.images)

\* C2: the second pass over an already merged incoming store reports every
\* incoming record as skipped and nothing else.
C2_IdempotentStats ==
  (pc = "done" /\ prev.valid) =>
     /\ stats.inserted = 0 /\ stats.updated = 0 /\ stats.deleted = 0
     /\ stats.images_copied = 0
     /\ stats.skipped = Cardinality(DOMAIN inc_rows)

\* The record of id has been handled by the running / just finished pass.
Processed(id) ==
  /\ pc \in {"loop", "done"}
  /\ \E k \in 1..(i - 1) : inc_order[k] = id

\* A merge call starts in this step (only merge_zip_into_local reads the clock).
StartedMerge == now' = now + 1

\* The step is a whole merge pass of another process.
OtherProcessStep == pc = "loop" /\ calls' = calls + 1

\* C3: a locally tombstoned record (deleted_at = T) stays tombstoned when the
\* incoming copy is live with updated_at < T, whatever the local updated_at.
C3_NoResurrection ==
  \A id \in Ids :
    (/\ Processed(id)
     /\ id \in DOMAIN local
     /\ local[id].deleted_at # 0
     /\ inc_rows[id].deleted_at = 0
     /\ inc_rows[id].updated_at < local[id].deleted_at)
    => rows[id].deleted_at # 0

\* C4: an incoming tombstone whose id is absent from the local store creates
\* no local record, changes nothing in the local store, and is counted once in
\* skipped and not in deleted.
C4_UnknownDeleteSuppressed ==
  [][(/\ pc = "loop" /\ pc' = "loop" /\ i' = i + 1
      /\ inc_rows[inc_order[i]].deleted_at # 0
      /\ inc_order[i] \notin DOMAIN rows)
     => (/\ rows' = rows /\ committed' = committed /\ images' = images
         /\ stats' = [stats EXCEPT !.skipped = @ + 1])]_vars

C4_Witness ==
  /\ pc = "done"
  /\ stats.skipped >= 1
  /\ \E id \in DOMAIN inc_rows :
       /\ Processed(id)
       /\ inc_rows[id].deleted_at # 0
       /\ id \notin DOMAIN local
       /\ id \notin DOMAIN rows
  /\ \E id \in DOMAIN inc_rows : id \in DOMAIN rows

\* C5: after a successful pass every incoming live record whose id was absent
\* from the local store is in the local store with the incoming field values
\* (updated_at stamped with the current time if absent), and inserted equals
\* the number of records added.
C5_InsertComplete ==
  pc = "done" =>
    /\ \A id \in DOMAIN inc_rows :
         (inc_rows[id].deleted_at = 0 /\ id \notin DOMAIN local) =>
            /\ id \in DOMAIN rows
            /\ \A k \in Keys : rows[id][k] = inc_rows[id][k]
            /\ rows[id].updated_at =
                 IF inc_rows[id].updated_at = 0 THEN now ELSE inc_rows[id].updated_at
    /\ stats.inserted = Cardinality((DOMAIN rows) \ (DOMAIN local))

\* Both copies exist with equal updated_at.
EqualTs(id) ==
  /\ id \in DOMAIN local
  /\ id \in DOMAIN inc_rows
  /\ inc_rows[id].updated_at = local[id].updated_at

KeepsNonNull(id) ==
  \A k \in Keys :
    (local[id][k] # NULL \/ inc_rows[id][k] # NULL) => rows[id][k] # NULL

\* C6 as stated: with equal updated_at, a mergeable field that was non-null on
\* either side is non-null in the local record after the merge.
C6_FieldMergeMonotone ==
  \A id \in Ids : (Processed(id) /\ EqualTs(id)) => KeepsNonNull(id)

\* C6 as amended: with equal updated_at and an incoming copy that is not a
\* tombstone, a mergeable field that was non-null on either side is non-null
\* in the local record after the merge.
C6_FieldMergeMonotoneLive ==
  \A id \in Ids :
    (Processed(id) /\ EqualTs(id) /\ inc_rows[id].deleted_at = 0) => KeepsNonNull(id)

C6_Witness ==
  \E id \in Ids :
    /\ Processed(id) /\ EqualTs(id) /\ inc_rows[id].deleted_at = 0
    /\ stats.updated >= 1
    /\ \E k \in Keys : local[id][k] = NULL /\ inc_rows[id][k] = "x" /\ rows[id][k] = "x"
    /\ \E k \in Keys : local[id][k] = "x" /\ inc_rows[id][k] = NULL /\ rows[id][k] = "x"

\* C7: identical bytes are stored in the local image directory under one and
\* the same name, whatever the original file name or extension.
C7_Dedup ==
  \A n1, n2 \in DOMAIN images : images[n1] = images[n2] => n1 = n2

\* C8: the writes of a pass become durable only at its end, and the writes of
\* a pass that aborted are never committed.
C8_AtomicPass ==
  [][~OtherProcessStep =>
       /\ (pc = "loop" /\ pc' # "done") => committed' = committed
       /\ aborted => committed' = committed]_vars

C10_StagingFailureUntouched ==
  [][(StartedMerge /\ archive' \in {"badzip", "nodb"})
     => (/\ pc' = "failed" /\ err' \in {"BadZipFile", "DBError"}
         /\ rows' = rows /\ committed' = committed /\ images' = images)]_vars

C10_Witness ==
  /\ pc = "failed" /\ archive = "nodb" /\ err = "DBError"
  /\ rows # EmptyFn /\ rows # committed

\* C11: a merge of a readable archive does not fail because the local or the
\* incoming store has no column for image_hash, deleted_at, updated_at or
\* image_name.
C11_OldSchemaTolerated ==
  (loc_cols # Cols \/ inc_cols # Cols) => err # "OperationalError"

C13_UpdatedAtMonotone ==
  \A id \in Ids :
    (Processed(id) /\ id \in DOMAIN local /\ id \in DOMAIN rows)
    => rows[id].updated_at >= local[id].updated_at

\* C14: from a pass's read of the local records to its commit, no write of
\* another merge pass reaches the local store: the store changes only by the
\* pass's own steps.
C14_SingleWriter ==
  [][(pc = "loop" /\ pc' = "loop" /\ i' = i)
     => (committed' = committed /\ rows' = rows /\ images' = images)]_vars

\* C15: an exported archive contains an image file only if a record of the
\* exported store references it.
C15_ExportOnlyReferenced ==
  exported.by # "none" =>
    \A n \in exported.images :
      \E id \in DOMAIN exported.db : exported.db[id].image_name = n

\* The step handles the incoming record of id inc_order[i].
RecordStep == pc = "loop" /\ pc' = "loop" /\ i' = i + 1

\* The incoming record handled by the step is a tombstone of a locally known id.
KnownTombstone ==
  /\ inc_rows[inc_order[i]].deleted_at # 0
  /\ inc_order[i] \in DOMAIN local

\* C16: an incoming tombstone of a locally known id whose deleted_at is not
\* below the local updated_at (or the local updated_at is absent) sets the
\* local deleted_at and updated_at to the incoming deleted_at, changes nothing
\* else, and is counted once in deleted.
C16_TombstoneApplied ==
  [][(/\ RecordStep
      /\ KnownTombstone
      /\ \/ local[inc_order[i]].updated_at = 0
         \/ inc_rows[inc_order[i]].deleted_at >= local[inc_order[i]].updated_at)
     => (/\ rows' = Put(rows, inc_order[i],
                        [rows[inc_order[i]] EXCEPT
                           !.deleted_at = inc_rows[inc_order[i]].deleted_at,
                           !.updated_at = inc_rows[inc_order[i]].deleted_at])
         /\ images' = images
         /\ stats' = [stats EXCEPT !.deleted = @ + 1])]_vars

C16_Witness ==
  \E id \in Ids :
    /\ Processed(id) /\ id \in DOMAIN local /\ stats.deleted = 1
    /\ local[id].deleted_at = 0 /\ local[id].updated_at = 1 /\ local[id].name = "x"
    /\ inc_rows[id].deleted_at = MaxTime
    /\ rows[id] = [local[id] EXCEPT !.deleted_at = MaxTime, !.updated_at = MaxTime]

\* C17: an incoming tombstone of a locally known id whose deleted_at is below
\* the local updated_at changes nothing in the local store and is counted once
\* in skipped.
C17_StaleDeleteSkipped ==
  [][(/\ RecordStep
      /\ KnownTombstone
      /\ local[inc_order[i]].updated_at > inc_rows[inc_order[i]].deleted_at)
     => (/\ rows' = rows /\ committed' = committed /\ images' = images
         /\ stats' = [stats EXCEPT !.skipped = @ + 1])]_vars

C17_Witness ==
  \E id \in Ids :
    /\ Processed(id) /\ id \in DOMAIN local /\ stats.skipped = 1 /\ stats.deleted = 0
    /\ local[id].deleted_at = 0 /\ local[id].updated_at = MaxTime
    /\ inc_rows[id].deleted_at = 1
    /\ rows[id] = local[id]

\* The incoming record handled by the step is live and its id is locally known.
BothExist ==
  /\ inc_rows[inc_order[i]].deleted_at = 0
  /\ inc_order[i] \in DOMAIN local

\* C18: when both copies exist, the incoming one is live and its updated_at is
\* above the local one, the local record takes the incoming value of name,
\* location, buy_price, sold_price, sold_date, updated_at and deleted_at,
\* nulls included, and the record is counted once in updated.
C18_NewerWinsWholesale ==
  [][(/\ RecordStep
      /\ BothExist
      /\ inc_rows[inc_order[i]].updated_at > local[inc_order[i]].updated_at)
     => (/\ \A k \in Keys \cup {"updated_at", "deleted_at"} :
              rows'[inc_order[i]][k] = inc_rows[inc_order[i]][k]
         /\ \A id \in (DOMAIN rows) \ {inc_order[i]} : rows'[id] = rows[id]
         /\ stats'.updated = stats.updated + 1
         /\ stats'.inserted = stats.inserted /\ stats'.deleted = stats.deleted
         /\ stats'.skipped = stats.skipped)]_vars

C18_Witness ==
  \E id \in Ids :
    /\ Processed(id) /\ id \in DOMAIN local /\ stats.updated = 1
    /\ local[id].name = "x" /\ local[id].updated_at = 1
    /\ inc_rows[id].name = NULL /\ inc_rows[id].deleted_at = 0
    /\ inc_rows[id].updated_at = MaxTime
    /\ rows[id].name = NULL /\ rows[id].updated_at = MaxTime

\* The incoming record handled by the step and the local copy of the snapshot
\* have equal updated_at.
EqualStep ==
  /\ RecordStep
  /\ inc_order[i] \in DOMAIN local
  /\ inc_rows[inc_order[i]].updated_at = local[inc_order[i]].updated_at

\* The field-level merge of the step's record: each mergeable field holds the
\* incoming value if that is non-null and the local value is null, empty or
\* different, and the local value otherwise; if a field or the image changed,
\* updated_at is the current time and the record is counted once in updated.
FieldMerged ==
  LET id == inc_order[i]
      changed == \/ \E k \in Keys : rows'[id][k] # local[id][k]
                 \/ rows'[id].image_name # local[id].image_name
                 \/ rows'[id].image_hash # local[id].image_hash
  IN /\ \A k \in Keys :
          rows'[id][k] =
            IF /\ inc_rows[id][k] # NULL
               /\ (local[id][k] = NULL \/ local[id][k] = ""
                      \/ inc_rows[id][k] # local[id][k])
            THEN inc_rows[id][k] ELSE local[id][k]
     /\ changed => /\ rows'[id].updated_at = now
                   /\ stats'.updated = stats.updated + 1
                   /\ stats'.inserted = stats.inserted
                   /\ stats'.deleted = stats.deleted
                   /\ stats'.skipped = stats.skipped

\* C19 as stated: when both copies exist with equal updated_at, the local
\* record is the field-level merge of the two.
C19_EqualFieldMerge == [][EqualStep => FieldMerged]_vars

\* C19 as amended: when both copies exist with equal updated_at and the
\* incoming copy is not a tombstone, the local record is the field-level merge
\* of the two.
C19_EqualFieldMergeLive ==
  [][(EqualStep /\ inc_rows[inc_order[i]].deleted_at = 0) => FieldMerged]_vars

C19_Witness ==
  /\ Processed(1) /\ 1 \in DOMAIN local
  /\ local[1].buy_price = "500" /\ local[1].sold_price = NULL
  /\ local[1].updated_at = inc_rows[1].updated_at
  /\ inc_rows[1].sold_price = "900"
  /\ rows[1].buy_price = "500" /\ rows[1].sold_price = "900"
  /\ rows[1].sold_date = "2024-05-01"
  /\ rows[1].updated_at = now /\ stats.updated = 1

\* C20: when both copies exist with equal updated_at, the incoming copy is
\* live, its mergeable fields are identical to the local ones (empty strings
\* included) and the image hashes do not differ, the step leaves the local
\* store unchanged and counts the record in skipped.
C20_EqualNoOp ==
  [][(/\ EqualStep
      /\ inc_rows[inc_order[i]].deleted_at = 0
      /\ \A k \in Keys : inc_rows[inc_order[i]][k] = local[inc_order[i]][k]
      /\ LET src == ResolveIncomingImagePath(inc_rows[inc_order[i]], inc_files)
         IN \/ src = NoName
            \/ InHash(inc_rows[inc_order[i]], src, inc_files)
                 = local[inc_order[i]].image_hash)
     => (/\ rows' = rows /\ images' = images
         /\ stats' = [stats EXCEPT !.skipped = @ + 1])]_vars

\* C21: when both copies exist, the incoming one is live and its updated_at
\* is below the local one, the step changes no local record and no local
\* image and counts the record once in skipped.
C21_OlderLoses ==
  [][(/\ RecordStep
      /\ BothExist
      /\ inc_rows[inc_order[i]].updated_at < local[inc_order[i]].updated_at)
     => (/\ rows' = rows /\ committed' = committed /\ images' = images
         /\ stats' = [stats EXCEPT !.skipped = @ + 1])]_vars

C21_Witness ==
  \E id \in Ids :
    /\ Processed(id) /\ id \in DOMAIN local /\ stats.skipped = 1
    /\ local[id].updated_at = MaxTime /\ local[id].name = "x"
    /\ inc_rows[id].updated_at = 1 /\ inc_rows[id].deleted_at = 0
    /\ inc_rows[id].name = "y"
    /\ rows[id] = local[id]

\* C22: no step changes the bytes of a file that exists in the local image
\* directory or removes it; a copy-in to an existing name writes nothing.
C22_WriteOnce ==
  [][\A n \in DOMAIN images : n \in DOMAIN images' /\ images'[n] = images[n]]_vars

C22_Witness ==
  /\ pc = "done" /\ stats.images_copied = 1
  /\ 1 \in DOMAIN local /\ local[1].image_name = NoName
  /\ rows[1].image_name = StoredH1
  /\ images = [n \in {StoredH1} |-> "c0"]

\* The step's incoming record is live, its id is locally known, its updated_at
\* is not below the local one (incoming-newer or equal-timestamp branch).
NewerOrEqualStep ==
  /\ RecordStep
  /\ BothExist
  /\ inc_rows[inc_order[i]].updated_at >= local[inc_order[i]].updated_at

\* C23: in the incoming-newer and the equal-timestamp branch, when the
\* content hash of the incoming image equals the local record's image_hash,
\* nothing is copied into the local image directory and images_copied does
\* not move, whatever the image names.
C23_NoRedundantCopy ==
  [][(/\ NewerOrEqualStep
      /\ LET src == ResolveIncomingImagePath(inc_rows[inc_order[i]], inc_files)
         IN /\ src # NoName
            /\ Sha1(inc_files[src]) = local[inc_order[i]].image_hash)
     => (images' = images /\ stats'.images_copied = stats.images_copied)]_vars

\* C24: in the incoming-newer and the equal-timestamp branch, when the image
\* the incoming record declares is not among the incoming files, images_copied
\* does not move and the local record keeps its image_name and image_hash.
C24_ImageMissKeepsImage ==
  [][(/\ NewerOrEqualStep
      /\ inc_rows[inc_order[i]].image_name # NoName
      /\ ResolveIncomingImagePath(inc_rows[inc_order[i]], inc_files) = NoName)
     => (/\ stats'.images_copied = stats.images_copied
         /\ images' = images
         /\ rows'[inc_order[i]].image_name = rows[inc_order[i]].image_name
         /\ rows'[inc_order[i]].image_hash = rows[inc_order[i]].image_hash)]_vars

\* C25: a record-loop step that goes on to the next record and counts the
\* record as inserted or updated has written it: the row is in the local
\* store (otherwise the pass would have stopped with an error).
C25_WriteFailureAborts ==
  [][(/\ RecordStep
      /\ \/ stats'.inserted > stats.inserted
         \/ stats'.updated > stats.updated)
     => inc_order[i] \in DOMAIN rows']_vars

\* What the iteration does to the record of id rid when nothing the pass has
\* written so far is taken into account: the local rows are those of the
\* snapshot, the connection's change counter is as it was at the snapshot.
FromSnapshot(rid) ==
  MergeOne([rows |-> local, total_changes |-> snap_changes,
            images |-> images, stats |-> stats],
           rid, RowsMap(inc_rows)[rid], local, inc_files, now)

\* C26: what a record-loop step decides for its record (the counter it bumps,
\* whether the row exists afterwards and with which values) is what the
\* snapshot alone determines, whatever the pass has written before.
C26_SnapshotConsistency ==
  [][RecordStep =>
       LET rid == inc_order[i]
           E == FromSnapshot(rid)
       IN /\ stats' = E.stats
          /\ (rid \in DOMAIN rows') = (rid \in DOMAIN E.rows)
          /\ rid \in DOMAIN rows' => rows'[rid] = E.rows[rid]]_vars

\* C27: while a pass runs every incoming record handled so far is counted in
\* exactly one of inserted, updated, deleted, skipped; after a successful pass
\* their sum is the number of incoming ids; images_copied never exceeds
\* inserted + updated.
C27_StatsAccount ==
  /\ pc = "loop" =>
       stats.inserted + stats.updated + stats.deleted + stats.skipped = i - 1
  /\ pc = "done" =>
       stats.inserted + stats.updated + stats.deleted + stats.skipped
         = Cardinality(DOMAIN inc_rows)
  /\ pc \in {"loop", "done"} =>
       stats.images_copied <= stats.inserted + stats.updated

C27_Witness ==
  /\ pc = "done"
  /\ Cardinality(DOMAIN inc_rows) = 2
  /\ stats.inserted = 1 /\ stats.updated = 1 /\ stats.images_copied >= 1

\* C28: no step of a merge call changes a local record whose id does not
\* occur in the incoming store, and none changes the incoming store or its
\* image files.
C28_Frame ==
  [][(pc = "loop" \/ StartedMerge)
     => (/\ \A id \in (DOMAIN rows) \ (DOMAIN inc_rows) :
              id \in DOMAIN rows' /\ rows'[id] = rows[id]
         /\ inc_rows' = inc_rows
         /\ inc_files' = inc_files)]_vars

C28_Witness ==
  /\ pc = "done" /\ committed = rows /\ stats.deleted = 1
  /\ \E id \in DOMAIN inc_rows : id \in DOMAIN local /\ rows[id] # local[id]
  /\ \E id \in (DOMAIN local) \ (DOMAIN inc_rows) : rows[id] = local[id]

\* The pass run over the incoming records in the order ord, from the snapshot.
PassInOrder(ord) ==
  MergePass([rows |-> local, total_changes |-> snap_changes,
             images |-> images, stats |-> ZeroStats],
            ord, 1, RowsMap(inc_rows), local, inc_files, now)

\* C29: the local store and the statistics a pass ends with are those of the
\* pass run in any other order of the incoming records (same local store,
\* same incoming store, same clock).
C29_OrderIndependent ==
  (pc = "done" /\ calls = 1) =>
    \A ord \in Perms(DOMAIN inc_rows) :
      /\ PassInOrder(ord).rows = rows
      /\ PassInOrder(ord).stats = stats

\* C30: after a successful pass, a local record whose image_name the pass
\* wrote (the record is new, or its image_name differs from the snapshot's)
\* names a file of the local image directory, and its image_hash is the
\* digest of that file.
C30_ImageRefsResolvable ==
  pc = "done" =>
    \A id \in (DOMAIN rows) \cap (DOMAIN inc_rows) :
      (/\ rows[id].image_name # NoName
       /\ id \in DOMAIN local => rows[id].image_name # local[id].image_name)
      => /\ rows[id].image_name \in DOMAIN images
         /\ rows[id].image_hash = Sha1(images[rows[id].image_name])

====
